---- MODULE Spec2Model ----
(***************************************************************************)
(* cpuwatch (src/main.c): the command line validator parseCmdLine, the     *)
(* option scanner it drives (getopt_long of the C library, with the        *)
(* option table and optstring of main.c), and the sampling loop of main.   *)
(*                                                                         *)
(* Strings are tuples of one-character strings, so that the scanner and    *)
(* the hand-written number conversions work character by character as the  *)
(* C code does.  argv is a TLA+ sequence whose element i+1 is C's argv[i].  *)
(***************************************************************************)
EXTENDS Integers, Sequences, FiniteSets, TLC

\* ------------------------------------------------------------ bounds
\* Number of arguments after the program name.
MaxArgs == 3
\* Number of passes of the sampling loop that are explored.
MaxTicks == 3
\* Number of validations of the same argument list in one process.
MaxRuns == 2
\* Length of the option value strings given to the number conversions.
MaxValLen == 3

\* ------------------------------------------------------------ strings
\* A null char pointer.
NULL == <<"NULL">>

\* argv[0].
PROG == <<"cpuwatch">>

T_h == <<"-", "h">>
T_help == <<"-", "-", "h", "e", "l", "p">>
T_of == <<"-", "o", "f">>
T_o == <<"-", "o">>
T_c2 == <<"-", "c", "2">>
T_c0 == <<"-", "c", "0">>
T_ca == <<"-", "c", "a">>
T_cpus2 == <<"-", "-", "c", "p", "u", "s", "=", "2">>
T_samples2 == <<"-", "-", "s", "a", "m", "p", "l", "e", "s", "=", "2">>
T_na == <<"-", "n", "a">>
T_ipt5 == <<"-", "i", ".", "5">>
T_ia == <<"-", "i", "a">>
T_x == <<"-", "x">>
T_f == <<"f">>
T_dd == <<"-", "-">>
T_i == <<"-", "i">>
T_c == <<"-", "c">>
T_n == <<"-", "n">>

\* The argument strings the command lines are drawn from.
Tokens ==
  { T_h, T_help, T_of, T_o, T_c2, T_c0, T_ca, T_cpus2, T_samples2,
    T_na, T_ipt5, T_ia, T_x, T_f, T_dd }

\* All sequences over S of length at most n.
SeqUpTo(S, n) == UNION { [1..k -> S] : k \in 0..n }

\* The suffix of string s from (1-based) position i on.
Tail_(s, i) == IF i > Len(s) THEN <<>> ELSE SubSeq(s, i, Len(s))

\* ------------------------------------------------------------ getopt
\* struct option getopts[] of parseCmdLine: name, has_arg, val.
getopts ==
  << [name |-> <<"o","u","t","p","u","t">>, has_arg |-> TRUE, val |-> "o"],
     [name |-> <<"i","n","t","e","r","v","a","l">>, has_arg |-> TRUE, val |-> "i"],
     [name |-> <<"n","c","p","u">>, has_arg |-> TRUE, val |-> "c"],
     [name |-> <<"s","a","m","p","l","e","s">>, has_arg |-> TRUE, val |-> "n"],
     [name |-> <<"h","e","l","p">>, has_arg |-> FALSE, val |-> "h"] >>

\* optstring ":ho:c:n:i:" : the short options, and those that take a value.
optstringOpts == {"h", "o", "c", "n", "i"}
optstringArg == {"o", "c", "n", "i"}

argcOf(argv) == Len(argv)
Arg(argv, i) == argv[i + 1]

\* NONOPTION_P of getopt: not starting with '-', or "-" alone.
NonOption(tok) == Len(tok) = 0 \/ tok[1] # "-" \/ Len(tok) = 1

\* The scanner's state before the first call: optind = 1, nothing pending.
GetoptInit(argv) ==
  [argv |-> argv, optind |-> 1, nextchar |-> 0,
   first_nonopt |-> 1, last_nonopt |-> 1]

\* exchange() of getopt: the skipped non-options [first, last) are moved
\* behind the options [last, optind) scanned since.
Exchange(argv, first, last, optind) ==
  [k \in 1..Len(argv) |->
     LET i == k - 1
     IN  IF i < first \/ i >= optind THEN argv[k]
         ELSE IF i < first + (optind - last) THEN Arg(argv, last + (i - first))
         ELSE Arg(argv, first + (i - (first + (optind - last))))]

RECURSIVE SkipNonOptions(_, _)
SkipNonOptions(argv, i) ==
  IF i < argcOf(argv) /\ NonOption(Arg(argv, i))
  THEN SkipNonOptions(argv, i + 1)
  ELSE i

\* Position of the first '=' in tok at or after i, or Len(tok)+1.
RECURSIVE NameEnd(_, _)
NameEnd(tok, i) ==
  IF i > Len(tok) \/ tok[i] = "=" THEN i ELSE NameEnd(tok, i + 1)

\* strncmp(p->name, nextchar, namelen) == 0
IsPrefix(nm, name) == Len(nm) <= Len(name) /\ SubSeq(name, 1, Len(nm)) = nm

\* process_long_option: tok is argv[optind], starting with "--".
ProcessLongOption(g, tok) ==
  LET argc == argcOf(g.argv)
      ne == NameEnd(tok, 3)
      nm == IF ne > 3 THEN SubSeq(tok, 3, ne - 1) ELSE <<>>
      exact == { k \in 1..Len(getopts) : getopts[k].name = nm }
      abbrev == { k \in 1..Len(getopts) : IsPrefix(nm, getopts[k].name) }
      found == IF exact # {} THEN exact
               ELSE IF Cardinality(abbrev) = 1 THEN abbrev ELSE {}
      g1 == [g EXCEPT !.optind = g.optind + 1, !.nextchar = 0]
  IN  IF found = {}
      THEN \* unknown or ambiguous
           [g |-> g1, opt |-> "?", optarg |-> NULL]
      ELSE LET p == getopts[CHOOSE k \in found : TRUE]
           IN  IF ne <= Len(tok)
               THEN IF p.has_arg
                    THEN [g |-> g1, opt |-> p.val, optarg |-> Tail_(tok, ne + 1)]
                    ELSE [g |-> g1, opt |-> "?", optarg |-> NULL]
               ELSE IF p.has_arg
                    THEN IF g1.optind < argc
                         THEN [g |-> [g1 EXCEPT !.optind = g1.optind + 1],
                               opt |-> p.val, optarg |-> Arg(g.argv, g1.optind)]
                         ELSE [g |-> g1, opt |-> ":", optarg |-> NULL]
                    ELSE [g |-> g1, opt |-> p.val, optarg |-> NULL]

\* The short option at position g.nextchar of argv[optind].
ProcessShortOption(g) ==
  LET argc == argcOf(g.argv)
      tok == Arg(g.argv, g.optind)
      c == tok[g.nextchar]
      atEnd == g.nextchar = Len(tok)
      \* "Increment optind when we start to process its last character."
      oi == IF atEnd THEN g.optind + 1 ELSE g.optind
      nc == IF atEnd THEN 0 ELSE g.nextchar + 1
  IN  IF c \notin optstringOpts
      THEN [g |-> [g EXCEPT !.optind = oi, !.nextchar = nc],
            opt |-> "?", optarg |-> NULL]
      ELSE IF c \in optstringArg
      THEN IF ~atEnd
           THEN [g |-> [g EXCEPT !.optind = oi + 1, !.nextchar = 0],
                 opt |-> c, optarg |-> Tail_(tok, g.nextchar + 1)]
           ELSE IF oi = argc
           THEN [g |-> [g EXCEPT !.optind = oi, !.nextchar = 0],
                 opt |-> ":", optarg |-> NULL]
           ELSE [g |-> [g EXCEPT !.optind = oi + 1, !.nextchar = 0],
                 opt |-> c, optarg |-> Arg(g.argv, oi)]
      ELSE [g |-> [g EXCEPT !.optind = oi, !.nextchar = nc],
            opt |-> c, optarg |-> NULL]

\* The scanner at argv[optind], an option: "--name..." or "-abc".
ScanElement(g) ==
  IF Arg(g.argv, g.optind)[2] = "-"
  THEN ProcessLongOption(g, Arg(g.argv, g.optind))
  ELSE ProcessShortOption([g EXCEPT !.nextchar = 2])

\* "--" at argv[dd]: everything after it is a non-option; the scan is over.
\* first is first_nonopt; last_nonopt is dd here.
Terminator(argv, dd, first) ==
  [g |-> [argv |-> IF first # dd THEN Exchange(argv, first, dd, dd + 1) ELSE argv,
          optind |-> IF first # dd THEN first + 1 ELSE dd + 1,
          nextchar |-> 0,
          first_nonopt |-> IF first # dd THEN first + 1 ELSE dd + 1,
          last_nonopt |-> argcOf(argv)],
   opt |-> "EOF", optarg |-> NULL]

\* After the non-options from the old optind up to o have been skipped.
AfterSkip(argv, o, first) ==
  IF o # argcOf(argv) /\ Arg(argv, o) = T_dd
  THEN Terminator(argv, o, first)
  ELSE IF o = argcOf(argv)
  THEN \* the end: optind goes back to the non-options that were skipped
       [g |-> [argv |-> argv, optind |-> IF first # o THEN first ELSE o,
               nextchar |-> 0, first_nonopt |-> first, last_nonopt |-> o],
        opt |-> "EOF", optarg |-> NULL]
  ELSE ScanElement([argv |-> argv, optind |-> o, nextchar |-> 0,
                    first_nonopt |-> first, last_nonopt |-> o])

\* "Advance to the next ARGV-element": first and last are first_nonopt and
\* last_nonopt, already lowered to optind where they were beyond it.
NextElement(g, first, last) ==
  IF first # last /\ last # g.optind
  THEN AfterSkip(Exchange(g.argv, first, last, g.optind),
                 SkipNonOptions(g.argv, g.optind),
                 first + (g.optind - last))
  ELSE AfterSkip(g.argv, SkipNonOptions(g.argv, g.optind),
                 IF last # g.optind THEN g.optind ELSE first)

\* One call of getopt_long(argc, argv, optstring, getopts, NULL) in state g
\* (PERMUTE ordering: optstring starts with neither '+' nor '-').
\* Result: the new scanner state, the value returned ("EOF" for -1) and optarg.
Getopt(g) ==
  IF g.nextchar # 0
  THEN ProcessShortOption(g)
  ELSE NextElement(g,
                   IF g.first_nonopt > g.optind THEN g.optind ELSE g.first_nonopt,
                   IF g.last_nonopt > g.optind THEN g.optind ELSE g.last_nonopt)

\* ------------------------------------------------------------ numbers
IsDigit(ch) == ch \in {"0", "1", "2", "3", "4", "5", "6", "7", "8", "9"}

\* *c - '0'
DigitVal(ch) ==
  CASE ch = "0" -> 0 [] ch = "1" -> 1 [] ch = "2" -> 2 [] ch = "3" -> 3
    [] ch = "4" -> 4 [] ch = "5" -> 5 [] ch = "6" -> 6 [] ch = "7" -> 7
    [] ch = "8" -> 8 [] ch = "9" -> 9

\* The first loop of the interval conversion, from position i of s with the
\* digits so far in d: stops at the end of s or at the first non-digit, which
\* is an error unless it is '.'.  Result: d, the stop position, the error.
RECURSIVE IntervalWhole(_, _, _)
IntervalWhole(s, i, d) ==
  IF i > Len(s) THEN [d |-> d, c |-> i, bad |-> FALSE]
  ELSE IF ~IsDigit(s[i]) THEN [d |-> d, c |-> i, bad |-> s[i] # "."]
  ELSE IntervalWhole(s, i + 1, d * 10 + DigitVal(s[i]))

\* The second loop, after the '.': any non-digit is an error.
RECURSIVE IntervalFraction(_, _, _, _)
IntervalFraction(s, i, d, v) ==
  IF i > Len(s) THEN [d |-> d, v |-> v, bad |-> FALSE]
  ELSE IF ~IsDigit(s[i]) THEN [d |-> d, v |-> v, bad |-> TRUE]
  ELSE IntervalFraction(s, i + 1, d * 10 + DigitVal(s[i]), v + 1)

\* The double d after `for (; v; v--) d /= 10`, kept exactly as the pair
\* (digits, number of decimals): the value is num / 10^scale.
ConvInterval(optarg) ==
  LET w == IntervalWhole(optarg, 1, 0)
  IN  IF w.c <= Len(optarg) /\ optarg[w.c] = "."
      THEN LET f == IntervalFraction(optarg, w.c + 1, w.d, 0)
           IN  [num |-> f.d, scale |-> f.v, bad |-> f.bad]
      ELSE [num |-> w.d, scale |-> 0, bad |-> w.bad]

\* The string to int loop of the 'c' and 'n' cases.
RECURSIVE IntLoop(_, _, _)
IntLoop(s, i, v) ==
  IF i > Len(s) THEN [v |-> v, bad |-> FALSE]
  ELSE IF ~IsDigit(s[i]) THEN [v |-> v, bad |-> TRUE]
  ELSE IntLoop(s, i + 1, v * 10 + DigitVal(s[i]))

ConvInt(optarg) == IntLoop(optarg, 1, 0)

\* ------------------------------------------------------------ parseCmdLine
\* The locals of parseCmdLine and *options as they are before the loop.
\* g is the scanner's state, which lives in the C library and is not reset.
ParseInit(g) ==
  [g |-> g,
   options |-> [output |-> NULL, interval |-> [num |-> 1, scale |-> 0],
                ncpu |-> 0, avg |-> 1, given_h |-> 0],
   given_o |-> 0, given_i |-> 0, given_c |-> 0, given_n |-> 0,
   given_badinterval |-> <<>>, given_badncpu |-> <<>>, given_badavg |-> <<>>,
   nunrecognized |-> 0,
   unrecognized |-> [i \in 0..(argcOf(g.argv) - 1) |-> NULL],
   missing |-> <<>>,
   returned |-> FALSE]

\* case 'h' without its return: the loop goes on and the checks are made.
CaseH_NoReturn(st, hbit) ==
  [st EXCEPT !.options.given_h = hbit]

\* case 'h': given_h is a one-bit bit-field, so given_h++ leaves hbit, the
\* implementation's value of a set one-bit int field (1 or -1); return 0.
CaseH(st, hbit) ==
  [st EXCEPT !.options.given_h = hbit, !.returned = TRUE]

CaseO(st, optarg) ==
  [st EXCEPT !.given_o = @ + 1, !.options.output = optarg]

CaseI(st, optarg) ==
  LET r == ConvInterval(optarg)
  IN  [st EXCEPT !.given_i = @ + 1,
                 !.given_badinterval = IF r.bad THEN Append(@, optarg) ELSE @,
                 !.options.interval = [num |-> r.num, scale |-> r.scale]]

CaseC(st, optarg) ==
  LET r == ConvInt(optarg)
  IN  [st EXCEPT !.given_c = @ + 1,
                 !.given_badncpu = IF r.bad THEN Append(@, optarg) ELSE @,
                 !.options.ncpu = r.v]

CaseN(st, optarg) ==
  LET r == ConvInt(optarg)
  IN  [st EXCEPT !.given_n = @ + 1,
                 !.given_badavg = IF r.bad THEN Append(@, optarg) ELSE @,
                 !.options.avg = r.v]

\* case '?': unrecognized[optind - 1] = argv[optind - 1], with the optind
\* and argv the scanner has left.
CaseUnrecognised(st) ==
  [st EXCEPT !.nunrecognized = @ + 1,
             !.unrecognized[st.g.optind - 1] = Arg(st.g.argv, st.g.optind - 1)]

\* case ':'
CaseMissing(st) ==
  [st EXCEPT !.missing = Append(@, Arg(st.g.argv, st.g.optind - 1))]

\* The body of the while loop for one value returned by getopt_long.
Switch(st, opt, optarg, hbit) ==
  CASE opt = "h" -> CaseH(st, hbit)
    [] opt = "o" -> CaseO(st, optarg)
    [] opt = "i" -> CaseI(st, optarg)
    [] opt = "c" -> CaseC(st, optarg)
    [] opt = "n" -> CaseN(st, optarg)
    [] opt = "?" -> CaseUnrecognised(st)
    [] opt = ":" -> CaseMissing(st)

\* The body of the while loop for the result r of getopt_long; st2 is the
\* state after the switch, which has returned from the function or not.
RECURSIVE ParseLoop(_, _)
LoopBody(st2, hbit) == IF st2.returned THEN st2 ELSE ParseLoop(st2, hbit)

LoopStep(st, r, hbit) ==
  IF r.opt = "EOF" THEN [st EXCEPT !.g = r.g]
  ELSE LoopBody(Switch([st EXCEPT !.g = r.g], r.opt, r.optarg, hbit), hbit)

\* while ((opt = getopt_long(...)) != -1) switch (opt) ...
ParseLoop(st, hbit) == LoopStep(st, Getopt(st.g), hbit)

\* One line written to stderr.
Line(cat, n, list) == [cat |-> cat, n |-> n, list |-> list]

\* The condition of the header line.
HeaderCond(st) ==
  \/ st.nunrecognized # 0 \/ Len(st.missing) # 0
  \/ Len(st.given_badinterval) # 0 \/ Len(st.given_badncpu) # 0
  \/ st.given_o > 1 \/ st.given_i > 1 \/ st.given_c > 1 \/ st.given_n > 1
  \/ st.given_o = 0 \/ st.given_c = 0

\* The second printing loop of the unrecognised options, from index i.
RECURSIVE ListRest(_, _, _)
ListRest(unrec, i, argc) ==
  IF i >= argc THEN <<>>
  ELSE IF unrec[i] # NULL THEN <<unrec[i]>> \o ListRest(unrec, i + 2, argc)
  ELSE ListRest(unrec, i + 1, argc)

\* The first printing loop: the first entry that is set, then the rest.
RECURSIVE ListFirst(_, _, _)
ListFirst(unrec, i, argc) ==
  IF i >= argc THEN <<>>
  ELSE IF unrec[i] # NULL THEN <<unrec[i]>> \o ListRest(unrec, i + 1, argc)
  ELSE ListFirst(unrec, i + 1, argc)

\* The strings the 'not recognised' line lists.
UnrecognisedListed(st) == ListFirst(st.unrecognized, 0, argcOf(st.g.argv))

\* The checks of how often --output/-o was given, as the lines printed.
ReportOutput(st) ==
  (IF st.given_o > 1 THEN <<Line("output_dup", st.given_o, <<>>)>> ELSE <<>>)
  \o (IF st.given_o = 0 THEN <<Line("output_missing", 0, <<>>)>> ELSE <<>>)

ReportInterval(st) ==
  (IF st.given_i > 1 THEN <<Line("interval_dup", st.given_i, <<>>)>> ELSE <<>>)
  \o (IF Len(st.given_badinterval) # 0
      THEN <<Line("interval_bad", Len(st.given_badinterval), st.given_badinterval)>>
      ELSE <<>>)

ReportCpus(st) ==
  (IF st.given_c > 1 THEN <<Line("cpus_dup", st.given_c, <<>>)>> ELSE <<>>)
  \o (IF st.given_c = 0 THEN <<Line("cpus_missing", 0, <<>>)>> ELSE <<>>)
  \o (IF Len(st.given_badncpu) # 0
      THEN <<Line("cpus_bad", Len(st.given_badncpu), st.given_badncpu)>>
      ELSE <<>>)

ReportSamples(st) ==
  (IF st.given_n > 1 THEN <<Line("samples_dup", st.given_n, <<>>)>> ELSE <<>>)
  \o (IF Len(st.given_badavg) # 0
      THEN <<Line("samples_bad", Len(st.given_badavg), st.given_badavg)>>
      ELSE <<>>)

\* Everything parseCmdLine prints after the loop, in order.
Report(st) ==
  (IF HeaderCond(st) THEN <<Line("header", 0, <<Arg(st.g.argv, 0)>>)>> ELSE <<>>)
  \o (IF st.nunrecognized # 0
      THEN <<Line("unrecognised", st.nunrecognized, UnrecognisedListed(st))>>
      ELSE <<>>)
  \o (IF Len(st.missing) # 0
      THEN <<Line("missing", Len(st.missing), st.missing)>> ELSE <<>>)
  \o ReportOutput(st) \o ReportInterval(st) \o ReportCpus(st)
  \o ReportSamples(st)

\* errors: one per line after the header.
ErrorCount(lines) == Cardinality({ k \in 1..Len(lines) : lines[k].cat # "header" })

\* The end of parseCmdLine when the loop has ended without a return:
\* lines is what was printed.
ParseResult(st, lines) ==
  [options |-> st.options,
   ret |-> IF ErrorCount(lines) # 0 THEN -1 ELSE 0,
   err |-> lines, g |-> st.g]

\* What parseCmdLine does once the loop has left st.
AfterLoop(st) ==
  IF st.returned
  THEN [options |-> st.options, ret |-> 0, err |-> <<>>, g |-> st.g]
  ELSE ParseResult(st, Report(st))

\* parseCmdLine(argc, argv, &options) called with the scanner in state g:
\* the options, the value returned, what was printed, the scanner afterwards.
parseCmdLine(g, hbit) == AfterLoop(ParseLoop(ParseInit(g), hbit))

\* ------------------------------------------------------------ utilisation
RECURSIVE GCD(_, _)
GCD(a, b) == IF b = 0 THEN a ELSE GCD(b, a % b)

Abs(x) == IF x < 0 THEN -x ELSE x

\* A double, kept exactly as a reduced fraction num/den with den > 0;
\* den = 0 stands for the IEEE results of a division by zero: num = 0 is NaN,
\* num = -1 is -infinity.
Frac(n, d) ==
  LET k == GCD(Abs(n), d)
  IN  [num |-> n \div k, den |-> d \div k]

\* 100 - 100 * ((idle / ncpu) / up), idle >= 0, ncpu >= 0, up >= 0.
Util(idle, ncpu, up) ==
  IF ncpu * up = 0
  THEN [num |-> IF idle = 0 THEN 0 ELSE -1, den |-> 0]
  ELSE Frac(100 * ncpu * up - 100 * idle, ncpu * up)

\* n/d in tenths, rounded to the nearest tenth (n >= 0, d > 0).
Tenths(n, d) == 10 * (n \div d) + (20 * (n % d) + d) \div (2 * d)

\* fprintf(file, "%.1f%%", util): the value in tenths of a percent, rounded
\* to the nearest tenth, or the text printf gives for NaN and -infinity.
Format(util) ==
  IF util.den = 0
  THEN [tenths |-> 0, text |-> IF util.num = 0 THEN "nan%" ELSE "-inf%"]
  ELSE [tenths |-> IF util.num >= 0
                   THEN Tenths(util.num, util.den)
                   ELSE -Tenths(-util.num, util.den),
        text |-> "%.1f%%"]

\* What /proc/uptime can hold at the first reading, in seconds: uptime and
\* idle time summed over the CPUs.
FirstSamples == { [up |-> 100, idle |-> 80] }

\* By how much the two counters can have grown between two readings.
Deltas == { [up |-> 1, idle |-> 1], [up |-> 2, idle |-> 0] }

\* ------------------------------------------------------------ state
VARIABLES
  cmdline,   \* the arguments the process was started with (argv[1..])
  argv,      \* argv, which the scanner permutes
  scanner,   \* the C library's scanner state: optind, nextchar, ...
  options,   \* struct options
  ret,       \* what the last parseCmdLine returned
  stderr,    \* the lines written to stderr
  results,   \* the outcome of each validation so far
  pc,        \* where main is
  times,     \* double times[new + 1][2]
  u,         \* double u
  file,      \* the content of the output file
  nwrites,   \* how often a utilisation was written to the file
  samples,   \* every reading of /proc/uptime so far, oldest first
  tick,      \* completed passes of the loop
  status,    \* main's return value once it has returned
  iofail     \* which I/O operation has failed, if any

vars ==
  << cmdline, argv, scanner, options, ret, stderr, results, pc, times, u,
     file, nwrites, samples, tick, status, iofail >>

parseVars == << argv, scanner, options, ret, results >>
loopVars == << times, u, file, nwrites, samples, tick, iofail >>

\* The scanner state of the model as the record Getopt works on.
ScannerOf(av, sc) ==
  [argv |-> av, optind |-> sc.optind, nextchar |-> sc.nextchar,
   first_nonopt |-> sc.first_nonopt, last_nonopt |-> sc.last_nonopt]

\* The error categories among the lines printed.
Categories(lines) ==
  { lines[k].cat : k \in 1..Len(lines) } \ {"header"}

\* What a caller sees of one validation.
Outcome(r) ==
  [ret |-> r.ret, help |-> r.options.given_h # 0, cats |-> Categories(r.err)]

Init ==
  /\ cmdline \in SeqUpTo(Tokens, MaxArgs)
  /\ argv = <<PROG>> \o cmdline
  /\ scanner = [optind |-> 1, nextchar |-> 0,
                first_nonopt |-> 1, last_nonopt |-> 1]
  /\ options = [output |-> NULL, interval |-> [num |-> 0, scale |-> 0],
                ncpu |-> 0, avg |-> 0, given_h |-> 0]
  /\ ret = 0
  /\ stderr = <<>>
  /\ results = <<>>
  /\ pc = "start"
  /\ times = <<>>
  /\ u = [num |-> 0, den |-> 1]
  /\ file = [tenths |-> 0, text |-> ""]
  /\ nwrites = 0
  /\ samples = <<>>
  /\ tick = 0
  /\ status = 0
  /\ iofail = "none"

\* The effects of a call of parseCmdLine with result r.
Returned(r, next) ==
  /\ argv' = r.g.argv
  /\ scanner' = [optind |-> r.g.optind, nextchar |-> r.g.nextchar,
                 first_nonopt |-> r.g.first_nonopt,
                 last_nonopt |-> r.g.last_nonopt]
  /\ options' = r.options
  /\ ret' = r.ret
  /\ stderr' = stderr \o r.err
  /\ results' = Append(results, Outcome(r))
  /\ pc' = next

\* A call parseCmdLine(argc, argv, &options), after which main is at next.
\* hbit is what the build stores in the one-bit field given_h.
CallParse(next) ==
  \E hbit \in {1, -1} :
    Returned(parseCmdLine(ScannerOf(argv, scanner), hbit), next)

\* main: parseCmdLine(argc, argv, &options)
MainParse ==
  /\ pc = "start"
  /\ CallParse("parsed")
  /\ UNCHANGED << cmdline, status >>
  /\ UNCHANGED loopVars

\* main: parseCmdLine failed or help was asked for: print usage, return -1.
MainUsage ==
  /\ pc = "parsed"
  /\ (ret < 0 \/ options.given_h # 0)
  /\ stderr' = Append(stderr, Line("usage", 0, <<>>))
  /\ status' = -1
  /\ pc' = "exit"
  /\ UNCHANGED << cmdline, argv, scanner, options, ret, results >>
  /\ UNCHANGED loopVars

\* times[] with every slot holding s.
Pad(new, s) == [i \in 0..new |-> s]

\* main: the first reading, the first utilisation and the padding.
MainFirstRead ==
  /\ pc = "parsed"
  /\ ~(ret < 0 \/ options.given_h # 0)
  /\ \/ \* readuptime fails (fopen or fscanf)
        /\ stderr' = Append(stderr, Line("uptime", 0, <<>>))
        /\ iofail' = "read"
        /\ status' = -1
        /\ pc' = "exit"
        /\ UNCHANGED << times, u, samples >>
     \/ \E s \in FirstSamples :
          /\ times' = Pad(options.avg, s)
          /\ u' = Util(s.idle, options.ncpu, s.up)
          /\ samples' = <<s>>
          /\ pc' = "write"
          /\ UNCHANGED << stderr, iofail, status >>
  /\ UNCHANGED << cmdline, file, nwrites, tick >>
  /\ UNCHANGED parseVars

\* writeutil(u, options.output) and main's check of its result.
WriteUtil ==
  /\ pc = "write"
  /\ \/ \* fopen fails: writeutil returns -1, main returns -1
        /\ stderr' = Append(stderr, Line("open", 0, <<options.output>>))
        /\ iofail' = "open"
        /\ status' = -1
        /\ pc' = "exit"
        /\ UNCHANGED << file, nwrites >>
     \/ \* fopen, fprintf and fclose succeed
        /\ file' = Format(u)
        /\ nwrites' = nwrites + 1
        /\ pc' = "sleep"
        /\ UNCHANGED << stderr, iofail, status >>
     \/ \* fopen truncates the file, fprintf or fclose fails: neither result
        \* is looked at, writeutil returns 0
        /\ file' = [tenths |-> 0, text |-> ""]
        /\ iofail' = "write"
        /\ pc' = "sleep"
        /\ UNCHANGED << stderr, nwrites, status >>
  /\ UNCHANGED << cmdline, times, u, samples, tick >>
  /\ UNCHANGED parseVars

\* usleep(options.interval * 1000000)
Sleep ==
  /\ pc = "sleep"
  /\ \/ \* slept, or interrupted by a signal (EINTR)
        /\ pc' = "read"
        /\ UNCHANGED << stderr, status >>
     \/ \* any other error
        /\ stderr' = Append(stderr, Line("usleep", 0, <<Arg(argv, 0)>>))
        /\ status' = -1
        /\ pc' = "exit"
  /\ UNCHANGED << cmdline >>
  /\ UNCHANGED loopVars
  /\ UNCHANGED parseVars

\* The shift with its loop ending one slot early: times[new - 1] is not
\* overwritten.
ShiftDown_OneShort(t, new) ==
  [i \in 0..new |-> IF i < new - 1 THEN t[i + 1] ELSE t[i]]

\* for (i = 0; i < new; i++) times[i] = times[i+1]
ShiftDown(t, new) == [i \in 0..new |-> IF i < new THEN t[i + 1] ELSE t[i]]

\* u from the newest and the oldest slot of times.
Recompute(t, new, ncpu) ==
  Util(t[new].idle - t[0].idle, ncpu, t[new].up - t[0].up)

\* main: shift the window, read the counters again, recompute u.
ShiftRead ==
  /\ pc = "read"
  /\ tick < MaxTicks
  /\ LET new == options.avg
         shifted == ShiftDown(times, new)
     IN  \/ \* readuptime fails
            /\ times' = shifted
            /\ stderr' = Append(stderr, Line("uptime", 0, <<>>))
            /\ iofail' = "read"
            /\ status' = -1
            /\ pc' = "exit"
            /\ UNCHANGED << u, samples, tick >>
         \/ \E d \in Deltas :
              LET last == samples[Len(samples)]
                  s == [up |-> last.up + d.up, idle |-> last.idle + d.idle]
                  t == [shifted EXCEPT ![new] = s]
              IN  /\ times' = t
                  /\ u' = Recompute(t, new, options.ncpu)
                  /\ samples' = Append(samples, s)
                  /\ tick' = tick + 1
                  /\ pc' = "write"
                  /\ UNCHANGED << stderr, iofail, status >>
  /\ UNCHANGED << cmdline, file, nwrites >>
  /\ UNCHANGED parseVars

Next ==
  \/ MainParse
  \/ MainUsage
  \/ MainFirstRead
  \/ WriteUtil
  \/ Sleep
  \/ ShiftRead

\* The program: one validation, then the sampling loop.
Spec == Init /\ [][Next]_vars

\* parseCmdLine called again in the same process on the same argv.
Revalidate ==
  /\ pc = "start"
  /\ Len(results) < MaxRuns
  /\ CallParse("start")
  /\ UNCHANGED << cmdline, status >>
  /\ UNCHANGED loopVars

SpecReval == Init /\ [][Revalidate]_vars

\* ------------------------------------------------------------ option values
\* The characters the option values of SpecValues are made of.
ValueChars == {"5", "0", ".", "a"}

\* A command line that is valid but for the value of one option, which is
\* given as an argument of its own: -i VALUE, -c VALUE or -n VALUE.
ValueCmdLines ==
  { <<T_of, T_c2, T_i, v>> : v \in SeqUpTo(ValueChars, MaxValLen) }
    \cup { <<T_of, T_c, v>> : v \in SeqUpTo(ValueChars, MaxValLen) }
    \cup { <<T_of, T_c2, T_n, v>> : v \in SeqUpTo(ValueChars, MaxValLen) }

InitValues ==
  /\ cmdline \in ValueCmdLines
  /\ argv = <<PROG>> \o cmdline
  /\ scanner = [optind |-> 1, nextchar |-> 0,
                first_nonopt |-> 1, last_nonopt |-> 1]
  /\ options = [output |-> NULL, interval |-> [num |-> 0, scale |-> 0],
                ncpu |-> 0, avg |-> 0, given_h |-> 0]
  /\ ret = 0
  /\ stderr = <<>>
  /\ results = <<>>
  /\ pc = "start"
  /\ times = <<>>
  /\ u = [num |-> 0, den |-> 1]
  /\ file = [tenths |-> 0, text |-> ""]
  /\ nwrites = 0
  /\ samples = <<>>
  /\ tick = 0
  /\ status = 0
  /\ iofail = "none"

\* The program started with one option value drawn from all short strings.
SpecValues == InitValues /\ [][Next]_vars

\* ------------------------------------------------------------ the scan, as a list
\* What getopt_long returns call after call from state g, up to the end of
\* the options or the first 'h': the option and its value.
RECURSIVE ScanTrace(_)
TraceStep(r) ==
  IF r.opt = "EOF" THEN <<>>
  ELSE IF r.opt = "h" THEN << [opt |-> r.opt, optarg |-> r.optarg] >>
  ELSE << [opt |-> r.opt, optarg |-> r.optarg] >> \o ScanTrace(r.g)

ScanTrace(g) == TraceStep(Getopt(g))

\* The scan of the command line the process was started with.
Scanned == ScanTrace(GetoptInit(<<PROG>> \o cmdline))

Count(tr, o) == Cardinality({ k \in 1..Len(tr) : tr[k].opt = o })

AllDigits(s) == \A k \in 1..Len(s) : IsDigit(s[k])

\* digits* ('.' digits*)? : digits and at most one '.'.
LooseDecimal(s) ==
  /\ \A k \in 1..Len(s) : IsDigit(s[k]) \/ s[k] = "."
  /\ Cardinality({ k \in 1..Len(s) : s[k] = "." }) <= 1

\* digits+
StrictDigits(s) == Len(s) >= 1 /\ AllDigits(s)

\* digits+ ('.' digits+)?
StrictDecimal(s) ==
  \/ StrictDigits(s)
  \/ \E p \in 2..(Len(s) - 1) :
       /\ s[p] = "."
       /\ AllDigits(SubSeq(s, 1, p - 1))
       /\ AllDigits(SubSeq(s, p + 1, Len(s)))

\* Whether the value s of option o ("i", "c" or "n") is malformed: by the
\* documented patterns when strict, else by what the conversion loops reject.
Malformed(o, s, strict) ==
  IF o = "i"
  THEN IF strict THEN ~StrictDecimal(s) ELSE ~LooseDecimal(s)
  ELSE IF strict THEN ~StrictDigits(s) ELSE ~AllDigits(s)

\* The error categories whose condition holds for the scan tr.
ExpectedCategories(tr, strict) ==
  { c \in { "unrecognised", "missing", "output_dup", "output_missing",
            "interval_dup", "interval_bad", "cpus_dup", "cpus_missing",
            "cpus_bad", "samples_dup", "samples_bad" } :
      CASE c = "unrecognised" -> Count(tr, "?") > 0
        [] c = "missing" -> Count(tr, ":") > 0
        [] c = "output_dup" -> Count(tr, "o") > 1
        [] c = "output_missing" -> Count(tr, "o") = 0
        [] c = "interval_dup" -> Count(tr, "i") > 1
        [] c = "interval_bad" ->
             \E k \in 1..Len(tr) :
               tr[k].opt = "i" /\ Malformed("i", tr[k].optarg, strict)
        [] c = "cpus_dup" -> Count(tr, "c") > 1
        [] c = "cpus_missing" -> Count(tr, "c") = 0
        [] c = "cpus_bad" ->
             \E k \in 1..Len(tr) :
               tr[k].opt = "c" /\ Malformed("c", tr[k].optarg, strict)
        [] c = "samples_dup" -> Count(tr, "n") > 1
        [] c = "samples_bad" ->
             \E k \in 1..Len(tr) :
               tr[k].opt = "n" /\ Malformed("n", tr[k].optarg, strict) }

\* parseCmdLine has returned to main, which has not gone on yet.
Parsed == pc = "parsed"
HelpGiven == options.given_h # 0

\* ------------------------------------------------------------ C1
\* The sample read at tick k (0 for the first reading).
SampleAt(k) == samples[k + 1]

\* The utilisation from the sample of tick k and that of tick k - n, or the
\* first reading when k <= n.
WindowUtil(k, n, ncpu) ==
  Util(SampleAt(k).idle - SampleAt(IF k > n THEN k - n ELSE 0).idle, ncpu,
       SampleAt(k).up - SampleAt(IF k > n THEN k - n ELSE 0).up)

IsHelp(tok) == tok = T_h \/ tok = T_help

\* An argument after which the scanner may read the next one as a value: a
\* group of short options ending in o, c, n or i, or a long option without '='.
MayTakeNext(tok) ==
  /\ Len(tok) >= 2
  /\ tok[1] = "-"
  /\ \/ tok[2] # "-" /\ tok[Len(tok)] \in optstringArg
     \/ tok[2] = "-" /\ Len(tok) > 2 /\ NameEnd(tok, 3) > Len(tok) /\ ~IsHelp(tok)

\* -h or --help at a place where the scanner reads it as an option.
HelpReadAsOption ==
  \E i \in 1..Len(cmdline) :
    /\ IsHelp(cmdline[i])
    /\ \A j \in 1..(i - 1) : cmdline[j] # T_dd
    /\ i > 1 => ~MayTakeNext(cmdline[i - 1])

\* C2 as stated: -h or --help anywhere in the argument list makes
\* parseCmdLine return with given_h set and nothing printed.
C2_HelpAnywhere ==
  (Parsed /\ \E i \in 1..Len(cmdline) : IsHelp(cmdline[i])) =>
     (HelpGiven /\ ret = 0 /\ stderr = <<>>)

\* C2 amended: -h or --help that is not behind "--" and does not directly
\* follow an argument that may take it as its value makes parseCmdLine return
\* with given_h set and nothing printed, whatever else is given.
C2_HelpReadAsOption ==
  (Parsed /\ HelpReadAsOption) => (HelpGiven /\ ret = 0 /\ stderr = <<>>)

\* Help after an unknown option and a malformed value.
C2_Witness ==
  /\ Parsed /\ HelpReadAsOption /\ HelpGiven
  /\ cmdline = <<T_x, T_ca, T_h>>

\* ------------------------------------------------------------ C3
\* C3: a command line accepted without help gives a configuration with a
\* non-empty output path, ncpu >= 1, avg >= 1 and interval > 0.
C3_AcceptedIsValid ==
  (Parsed /\ ret = 0 /\ ~HelpGiven) =>
     /\ options.output # NULL /\ Len(options.output) > 0
     /\ options.ncpu >= 1
     /\ options.avg >= 1
     /\ options.interval.num > 0

\* ------------------------------------------------------------ C4
\* The command line with every --cpus=2 written as -c2.
ShortCpus(c) == [k \in 1..Len(c) |-> IF c[k] = T_cpus2 THEN T_c2 ELSE c[k]]

\* What parseCmdLine gives for the arguments c in a fresh process: the
\* outcome and ncpu.
Validation(r) == [outcome |-> Outcome(r), ncpu |-> r.options.ncpu]
Validated(c) == Validation(parseCmdLine(GetoptInit(<<PROG>> \o c), 1))

\* C4: a command line with --cpus=NUM is decided as the same command line
\* with -c NUM: same result, same error categories, same ncpu.
C4_LongCpusAsShort ==
  (Parsed /\ \E k \in 1..Len(cmdline) : cmdline[k] = T_cpus2) =>
     [outcome |-> results[1], ncpu |-> options.ncpu] = Validated(ShortCpus(cmdline))

\* ------------------------------------------------------------ C5
\* The option of a command line of ValueCmdLines and its value.
ValueOption == cmdline[Len(cmdline) - 1]
ValueGiven == cmdline[Len(cmdline)]

\* C5: an interval that is not digits ('.' digits)?, and a cpus or samples
\* value that is not digits, each group with a digit at least, is recorded
\* as malformed.
C5_MalformedUnlessStrict ==
  Parsed =>
    /\ (ValueOption = T_i /\ ~StrictDecimal(ValueGiven))
         => "interval_bad" \in Categories(stderr)
    /\ (ValueOption = T_c /\ ~StrictDigits(ValueGiven))
         => "cpus_bad" \in Categories(stderr)
    /\ (ValueOption = T_n /\ ~StrictDigits(ValueGiven))
         => "samples_bad" \in Categories(stderr)

\* ------------------------------------------------------------ C6
\* C6: once reading the counters or opening or writing the output file has
\* failed, the process has ended with a non-zero status.
C6_FailureIsFatal ==
  iofail # "none" => (pc = "exit" /\ status # 0)

\* ------------------------------------------------------------ C7
\* The lines after the header.
ErrorLines == SelectSeq(stderr, LAMBDA l : l.cat # "header")

\* C7: without help, each error category is reported, once, exactly when its
\* condition holds for the options scanned (a value being malformed when it
\* is not digits ('.' digits)?, or not digits for cpus and samples), whatever
\* the other categories do, and parseCmdLine fails exactly when some
\* category holds.
C7_CategoriesIndependent ==
  (Parsed /\ ~HelpGiven) =>
     /\ Categories(stderr) = ExpectedCategories(Scanned, TRUE)
     /\ Len(ErrorLines) = Cardinality(Categories(stderr))
     /\ (ret = -1) <=> (ExpectedCategories(Scanned, TRUE) # {})

\* The same with 'malformed' taken as what the conversion loops reject
\* (digits* ('.' digits*)?, digits*): this much of C7 the code does.
CategoriesAsConverted ==
  (Parsed /\ ~HelpGiven) =>
     /\ Categories(stderr) = ExpectedCategories(Scanned, FALSE)
     /\ Len(ErrorLines) = Cardinality(Categories(stderr))
     /\ (ret = -1) <=> (ExpectedCategories(Scanned, FALSE) # {})
     /\ ret \in {0, -1}

\* ------------------------------------------------------------ C8
\* C8: a second validation of the same argument list in the same process
\* has the outcome of the first.
C8_Idempotent ==
  Len(results) >= 2 => results[2] = results[1]

\* ------------------------------------------------------------ C9
\* C9: the 'not recognised' line lists as many options as it counts.
C9_AllUnrecognisedListed ==
  Parsed =>
    \A k \in 1..Len(stderr) :
      stderr[k].cat = "unrecognised" => Len(stderr[k].list) = stderr[k].n

\* ------------------------------------------------------------ C10
\* C10: when parseCmdLine fails, the first line printed is the header with
\* the program's name.
C10_HeaderOnReject ==
  (Parsed /\ ret = -1) =>
     /\ Len(stderr) >= 1
     /\ stderr[1] = Line("header", 0, <<PROG>>)

====
